---- MODULE Spec2Model ----
(***************************************************************************)
(* Model of the medical RAG assistant: the hybrid domain classifier        *)
(* (domain_classifier.py), the retrieval / rerank / confidence-gate        *)
(* pipeline of ask_question (main.py) and the helpers it calls.            *)
(*                                                                         *)
(* Python strings are sequences of one-character strings, so that          *)
(* str.strip, str.lower and str.title are computed and not assumed.        *)
(* Similarity scores are integers in units of 0.05 (0.2 = 4, 0.4 = 8,      *)
(* 0.45 = 9); only comparisons with thresholds are made on them.           *)
(***************************************************************************)
EXTENDS Integers, Sequences, FiniteSets, TLC

(***************************************************************************)
(* Bounds of the model                                                     *)
(***************************************************************************)
Margin == 1          \* similarity scores range over threshold +/- Margin
MaxMatches == 2      \* matches returned by the vector store
MaxTopK == 2         \* top_k argument of ask_question
MaxSnippets == 2     \* results returned by the web search
CtxMaxChunks == 3    \* chunks given to build_smart_context (context spec)
CtxMaxLen == 3       \* length of a chunk (context spec)
CtxMaxChars == 8     \* max_chars argument (context spec)
RrMaxChunks == 3     \* chunks given to rerank_chunks (rerank spec)
RrMaxTopK == 3       \* top_k given to rerank_chunks (rerank spec)
EvMaxChunks == 3     \* chunks given to the metrics (evaluator spec)
EvMaxK == 4          \* k given to the metrics (evaluator spec)

(***************************************************************************)
(* Program constants                                                       *)
(***************************************************************************)
emb_threshold == 4          \* 0.2
health_emb_fallback == 9    \* 0.45
db_sim_threshold == 8       \* 0.4
default_max_chars == 3000

Education == <<"E","d","u","c","a","t","i","o","n">>
Healthcare == <<"H","e","a","l","t","h","c","a","r","e">>
Other == <<"O","t","h","e","r">>
ALLOWED_LABELS == {Education, Healthcare, Other}

\* DOMAIN_MAP of main.py, as a set of <<key, value>> pairs
DOMAIN_MAP == {<<Education, "education_pdfs">>, <<Healthcare, "healthcare_pdfs">>}
\* keys of db_utils.indexes
INDEX_NAMES == {"education_pdfs", "healthcare_pdfs"}

\* the leading emoji of the three fixed messages is left out
REFUSAL_MSG == <<"T","h","i","s"," ","a","s","s","i","s","t","a","n","t"," ","o","n","l","y"," ","a","n","s","w","e","r","s"," ","m","e","d","i","c","a","l"," ","e","d","u","c","a","t","i","o","n"," ","a","n","d"," ","h","e","a","l","t","h","c","a","r","e"," ","q","u","e","s","t","i","o","n","s",".">>
NO_INFO_MSG == <<"I"," ","c","o","u","l","d"," ","n","o","t"," ","f","i","n","d"," ","a","n","y"," ","r","e","l","e","v","a","n","t"," ","i","n","f","o","r","m","a","t","i","o","n"," ","o","n","l","i","n","e",".">>
WEB_NOT_FOUND_MSG == <<"I"," ","c","o","u","l","d"," ","n","o","t"," ","f","i","n","d"," ","t","h","i","s"," ","i","n"," ","t","h","e"," ","w","e","b"," ","s","e","a","r","c","h"," ","r","e","s","u","l","t","s",".">>
SENTINEL_LOWER == <<"i"," ","c","o","u","l","d"," ","n","o","t"," ","f","i","n","d"," ","t","h","i","s"," ","i","n"," ","u","p","l","o","a","d","e","d"," ","p","d","f","s",".">>

(***************************************************************************)
(* Python string methods                                                   *)
(***************************************************************************)
Uppers == <<"A","B","C","D","E","F","G","H","I","J","K","L","M","N","O","P","Q","R","S","T","U","V","W","X","Y","Z">>
Lowers == <<"a","b","c","d","e","f","g","h","i","j","k","l","m","n","o","p","q","r","s","t","u","v","w","x","y","z">>
Whitespace == {" ", "\n", "\t"}

IsLetter(c) == \E i \in 1..26 : Uppers[i] = c \/ Lowers[i] = c
LowerOf == [c \in {Uppers[i] : i \in 1..26} |-> Lowers[CHOOSE i \in 1..26 : Uppers[i] = c]]
UpperOf == [c \in {Lowers[i] : i \in 1..26} |-> Uppers[CHOOSE i \in 1..26 : Lowers[i] = c]]
ToLower(c) == IF c \in DOMAIN LowerOf THEN LowerOf[c] ELSE c
ToUpper(c) == IF c \in DOMAIN UpperOf THEN UpperOf[c] ELSE c

\* str.lower()
StrLower(s) == [i \in 1..Len(s) |-> ToLower(s[i])]

\* str.title(): a letter that follows a non-letter is upper-cased, any
\* other letter is lower-cased
StrTitle(s) ==
    [i \in 1..Len(s) |->
        IF i = 1 \/ ~IsLetter(s[i-1]) THEN ToUpper(s[i]) ELSE ToLower(s[i])]

\* str.strip()
StrStrip(s) ==
    LET keep == {i \in 1..Len(s) : s[i] \notin Whitespace}
    IN  IF keep = {} THEN <<>>
        ELSE LET lo == CHOOSE i \in keep : \A j \in keep : i <= j
                 hi == CHOOSE i \in keep : \A j \in keep : j <= i
             IN  SubSeq(s, lo, hi)

Min(a, b) == IF a <= b THEN a ELSE b

(***************************************************************************)
(* Inputs: what the external services can return                           *)
(***************************************************************************)
RespEduLower == <<"e","d","u","c","a","t","i","o","n">>
RespHealthPadded == <<" ","h","e","a","l","t","h","c","a","r","e","\n">>
RespOtherUpper == <<"O","T","H","E","R">>
RespEduDot == <<"E","d","u","c","a","t","i","o","n",".">>
RespChatty == <<"n","o","t"," ","s","u","r","e">>
\* contents the chat completion can return to a classification prompt
LlmResponses == {RespEduLower, RespHealthPadded, RespOtherUpper, RespEduDot, RespChatty}

EduScores == (emb_threshold - Margin)..(emb_threshold + Margin)
HealthScores == (health_emb_fallback - Margin)..(health_emb_fallback + Margin)

NoValue == "none"
Unset == 0 - 1      \* a score local that holds no value

\* chunk texts stored in the vector indexes
ChunkA == <<"a">>
ChunkB == <<"b","b">>
ChunkPool == {ChunkA, ChunkB}

\* metadata of a match: None is <<>>, a dict is <<set of <<key, value>> >>
MetaNone == <<>>
MetaNoText == << {<< "source", <<"f">> >>} >>
MetaText(c) == << {<< "text", c >>} >>
Metadatas == {MetaNone, MetaNoText} \cup {MetaText(c) : c \in ChunkPool}

\* scores the vector store attaches to a match: below, at and above 0.4
RetrieverScores == (db_sim_threshold - 1)..(db_sim_threshold + 1)
Matches == [metadata : Metadatas, score : RetrieverScores]

\* the vector store answers with at most top_k matches, best score first
MatchLists(k) ==
    {m \in UNION {[1..n -> Matches] : n \in 0..Min(k, MaxMatches)} :
        \A i \in 1..(Len(m) - 1) : m[i].score >= m[i+1].score}

\* the cross-encoder and the relevance oracle are functions of the chunk text
CEScores == 0..1
Texts(chunks) == {chunks[i] : i \in 1..Len(chunks)}
\* the scorings of the chunks given (0 stands for a chunk that was not scored)
CrossEncoders(chunks) ==
    {f \in [ChunkPool -> CEScores] : \A c \in ChunkPool \ Texts(chunks) : f[c] = 0}
\* the judgements of the chunks given (FALSE for a chunk that was not judged)
Oracles(chunks) ==
    {f \in [ChunkPool -> BOOLEAN] : \A c \in ChunkPool \ Texts(chunks) : ~f[c]}

AnsSentinel == <<"I"," ","c","o","u","l","d"," ","n","o","t"," ","f","i","n","d"," ","t","h","i","s"," ","i","n"," ","u","p","l","o","a","d","e","d"," ","P","D","F","s",".">>
AnsSentinelUpper == <<"I"," ","C","O","U","L","D"," ","N","O","T"," ","F","I","N","D"," ","T","H","I","S"," ","I","N"," ","U","P","L","O","A","D","E","D"," ","P","D","F","S",".">>
AnsSentinelPadded == <<" ","I"," ","c","o","u","l","d"," ","n","o","t"," ","f","i","n","d"," ","t","h","i","s"," ","i","n"," ","u","p","l","o","a","d","e","d"," ","P","D","F","s",".","\n">>
AnsSentinelNoDot == <<"I"," ","c","o","u","l","d"," ","n","o","t"," ","f","i","n","d"," ","t","h","i","s"," ","i","n"," ","u","p","l","o","a","d","e","d"," ","P","D","F","s">>
AnsReal == <<"T","h","e"," ","h","e","a","r","t"," ","h","a","s"," ","f","o","u","r"," ","c","h","a","m","b","e","r","s",".">>
\* contents the chat completion can return to the DB answer prompt
DbCompletions == {AnsSentinel, AnsSentinelUpper, AnsSentinelPadded, AnsSentinelNoDot, AnsReal}

AnsWeb == <<"S","e","e"," ","a"," ","d","o","c","t","o","r",".">>
\* contents the chat completion can return to the web answer prompt
WebCompletions == {AnsWeb, WEB_NOT_FOUND_MSG}

\* content fields of the web search results
SnippetTexts == {<<>>, <<"w">>}
SnippetLists == UNION {[1..n -> SnippetTexts] : n \in 0..MaxSnippets}

VARIABLES
    pc,                 \* position in ask_question / classify_medical_domain
    top_k,              \* argument of ask_question
    edu_score,          \* classify_medical_domain locals
    health_score,
    llm_raw,            \* contents the LLM returned during this classification
    llm_calls,          \* LLM invocations during this classification
    domain_result,      \* ask_question locals
    domain_db,
    retrieved_chunks,
    similarity_scores,
    reranked_chunks,
    source,
    context,
    answer,
    metrics,
    web_context,
    output,             \* the value ask_question returned
    raised,             \* the exception that left ask_question, if any
    failed,             \* the upstream services that raised during this run
    calls,              \* how often each collaborator was invoked in this run
    chunks_arg,         \* build_smart_context: argument chunks
    max_chars,          \* build_smart_context: argument max_chars
    ctx_i,              \* build_smart_context: index of the loop's next chunk
    ctx_context,        \* build_smart_context: local context
    used,               \* build_smart_context: local used
    ctx_pc,             \* build_smart_context: position
    db_answer,          \* the value generate_answer returned in this run
    call_pc,            \* a helper called on its own: position in the call
    args,               \* a helper called on its own: its arguments
    locals,             \* a helper called on its own: its local variables
    result              \* a helper called on its own: the value returned

vars == <<pc, top_k, edu_score, health_score, llm_raw, llm_calls,
          domain_result,
          domain_db, retrieved_chunks, similarity_scores, reranked_chunks,
          source, context, answer, metrics, web_context, output, raised,
          failed, calls, chunks_arg, max_chars, ctx_i, ctx_context,
          used, ctx_pc, db_answer, call_pc, args, locals, result>>

clsLocals == <<edu_score, health_score, llm_raw, llm_calls>>
retrLocals == <<retrieved_chunks, similarity_scores, reranked_chunks>>
ansLocals == <<source, context, answer, metrics, web_context, db_answer>>
ctxVars == <<chunks_arg, max_chars, ctx_i, ctx_context, used, ctx_pc>>
fnVars == <<call_pc, args, locals, result>>

Collaborators == {"classify_medical_domain", "search_vector_db",
                  "rerank_chunks", "should_fallback", "build_smart_context",
                  "generate_answer", "precision_at_k", "recall_at_k",
                  "mrr_score", "tavily_search", "answer_from_web"}

NoCalls == [c \in Collaborators |-> 0]

Called(c) == [calls EXCEPT ![c] = @ + 1]

(***************************************************************************)
(* domain_classifier.py                                                    *)
(***************************************************************************)
\* the completion's content returned without the membership test
llm_classify_unchecked(content) == StrTitle(StrStrip(content))

\* llm_classify, lines 62-65: normalisation of the completion's content
llm_classify(content) ==
    LET domain == StrTitle(StrStrip(content))
    IN  IF domain \notin ALLOWED_LABELS THEN Other ELSE domain

\* line 92
NeedsConfirmation(edu) == edu >= emb_threshold

\* the Healthcare bar made strict
StrongHealthcare_strict(health) == health > health_emb_fallback

\* line 99
StrongHealthcare(health) == health >= health_emb_fallback

\* an exception leaves ask_question
Raise(service) ==
    /\ pc' = "error"
    /\ raised' = service
    /\ failed' = failed \cup {service}

\* classify_medical_domain returns d to ask_question
ReturnDomain(d) ==
    /\ pc' = "classified"
    /\ domain_result' = d

\* classify_medical_domain, lines 78-101 up to the first LLM call
ClassifyEmbed ==
    /\ pc = "start"
    /\ calls' = Called("classify_medical_domain")
    /\ \/ /\ Raise("embedder")
          /\ UNCHANGED <<clsLocals, domain_result>>
       \/ \E e \in EduScores, h \in HealthScores :
            /\ edu_score' = e
            /\ health_score' = h
            /\ UNCHANGED <<llm_raw, llm_calls, raised, failed>>
            /\ IF NeedsConfirmation(e)
                 THEN pc' = "cls_confirm" /\ UNCHANGED domain_result
                 ELSE IF StrongHealthcare(h)
                        THEN ReturnDomain(Healthcare)
                        ELSE pc' = "cls_llm" /\ UNCHANGED domain_result
    /\ UNCHANGED <<top_k, domain_db, retrLocals, ansLocals, output, ctxVars, fnVars>>

\* classify_medical_domain, lines 93-101: the Education confirmation
LlmConfirm ==
    /\ pc = "cls_confirm"
    /\ llm_calls' = llm_calls + 1
    /\ \/ /\ Raise("llm")
          /\ UNCHANGED <<llm_raw, domain_result>>
       \/ \E content \in LlmResponses :
            /\ llm_raw' = Append(llm_raw, content)
            /\ UNCHANGED <<raised, failed>>
            /\ IF llm_classify(content) = Education
                 THEN ReturnDomain(Education)
                 ELSE IF StrongHealthcare(health_score)
                        THEN ReturnDomain(Healthcare)
                        ELSE pc' = "cls_llm" /\ UNCHANGED domain_result
    /\ UNCHANGED <<top_k, edu_score, health_score, domain_db, retrLocals,
                   ansLocals, output, calls, ctxVars, fnVars>>

\* classify_medical_domain, lines 103-105: the final LLM classification
LlmFinal ==
    /\ pc = "cls_llm"
    /\ llm_calls' = llm_calls + 1
    /\ \/ /\ Raise("llm")
          /\ UNCHANGED <<llm_raw, domain_result>>
       \/ \E content \in LlmResponses :
            /\ llm_raw' = Append(llm_raw, content)
            /\ UNCHANGED <<raised, failed>>
            /\ ReturnDomain(llm_classify(content))
    /\ UNCHANGED <<top_k, edu_score, health_score, domain_db, retrLocals,
                   ansLocals, output, calls, ctxVars, fnVars>>

(***************************************************************************)
(* main.py                                                                 *)
(***************************************************************************)
\* the refusal test against the wrong label
IsRefusedDomain_wrong(d) == d = Healthcare

\* line 72
IsRefusedDomain(d) == d = Other

PlainOutput(msg) == [kind |-> "plain", source_used |-> NoValue,
                     answer |-> msg, metrics |-> <<>>]

\* ask_question, lines 69-75: the classifier has returned
RouteDomain ==
    /\ pc = "classified"
    /\ edu_score' = Unset
    /\ health_score' = Unset
    /\ llm_raw' = <<>>
    /\ llm_calls' = 0
    /\ IF IsRefusedDomain(domain_result)
         THEN /\ pc' = "done"
              /\ output' = PlainOutput(REFUSAL_MSG)
              /\ UNCHANGED <<domain_db, raised, failed>>
         ELSE IF \E kv \in DOMAIN_MAP : kv[1] = domain_result
                THEN /\ pc' = "search"
                     /\ domain_db' = (CHOOSE kv \in DOMAIN_MAP : kv[1] = domain_result)[2]
                     /\ UNCHANGED <<output, raised, failed>>
                ELSE /\ pc' = "error"
                     /\ raised' = "KeyError"
                     /\ UNCHANGED <<output, domain_db, failed>>
    /\ UNCHANGED <<top_k, domain_result, retrLocals, ansLocals, calls, ctxVars, fnVars>>

(***************************************************************************)
(* db_utils.py                                                             *)
(***************************************************************************)
\* search_vector_db, line 89
HasText(m) ==
    /\ m.metadata # <<>>
    /\ \E kv \in m.metadata[1] : kv[1] = "text"

TextOf(m) == (CHOOSE kv \in m.metadata[1] : kv[1] = "text")[2]

\* search_vector_db, lines 85-91: the chunks and the scores of the matches
ChunksOf(matches) ==
    LET kept == SelectSeq(matches, HasText)
    IN  [i \in 1..Len(kept) |-> TextOf(kept[i])]

\* the score of every match, with or without text
ScoresOf_all(matches) == [i \in 1..Len(matches) |-> matches[i].score]

ScoresOf(matches) ==
    LET kept == SelectSeq(matches, HasText)
    IN  [i \in 1..Len(kept) |-> kept[i].score]

\* ask_question, lines 78-83, and search_vector_db, lines 71-94
SearchVectorDb ==
    /\ pc = "search"
    /\ calls' = Called("search_vector_db")
    /\ IF domain_db \notin INDEX_NAMES
         THEN /\ pc' = "error"
              /\ raised' = "ValueError"
              /\ UNCHANGED <<failed, retrieved_chunks, similarity_scores>>
         ELSE \/ /\ Raise("embedder")
                 /\ UNCHANGED <<retrieved_chunks, similarity_scores>>
              \/ /\ Raise("vector_store")
                 /\ UNCHANGED <<retrieved_chunks, similarity_scores>>
              \/ \E matches \in MatchLists(top_k) :
                   /\ retrieved_chunks' = ChunksOf(matches)
                   /\ similarity_scores' = ScoresOf(matches)
                   /\ pc' = "rerank"
                   /\ UNCHANGED <<raised, failed>>
    /\ UNCHANGED <<top_k, clsLocals, domain_result, domain_db,
                   reranked_chunks, ansLocals, output, ctxVars, fnVars>>

(***************************************************************************)
(* reranker.py                                                             *)
(***************************************************************************)
RECURSIVE SortedDesc_unstable(_)
\* an ascending sort read backwards: equal scores come out in reverse order
SortedDesc_unstable(pairs) ==
    IF pairs = <<>> THEN <<>>
    ELSE LET i == CHOOSE j \in 1..Len(pairs) :
                    /\ \A l \in 1..Len(pairs) : pairs[l][2] <= pairs[j][2]
                    /\ \A l \in (j + 1)..Len(pairs) : pairs[l][2] < pairs[j][2]
         IN  <<pairs[i]>> \o
             SortedDesc_unstable(SubSeq(pairs, 1, i - 1) \o SubSeq(pairs, i + 1, Len(pairs)))

RECURSIVE SortedDesc(_)
\* sorted(pairs, key=score, reverse=True): stable, the first of the pairs
\* with the greatest score comes first
SortedDesc(pairs) ==
    IF pairs = <<>> THEN <<>>
    ELSE LET i == CHOOSE j \in 1..Len(pairs) :
                    /\ \A l \in 1..Len(pairs) : pairs[l][2] <= pairs[j][2]
                    /\ \A l \in 1..(j - 1) : pairs[l][2] < pairs[j][2]
         IN  <<pairs[i]>> \o
             SortedDesc(SubSeq(pairs, 1, i - 1) \o SubSeq(pairs, i + 1, Len(pairs)))

\* rerank_chunks, lines 12-22; predict is the cross-encoder's scoring
rerank_chunks(chunks, predict, k) ==
    LET pairs == [i \in 1..Len(chunks) |-> <<chunks[i], predict[chunks[i]]>>]
        ranked == SortedDesc(pairs)
    IN  [i \in 1..Min(k, Len(ranked)) |-> ranked[i][1]]

\* ask_question, line 89
Rerank ==
    /\ pc = "rerank"
    /\ IF retrieved_chunks # <<>>
         THEN /\ calls' = Called("rerank_chunks")
              /\ \/ /\ Raise("cross_encoder")
                    /\ UNCHANGED reranked_chunks
                 \/ \E predict \in CrossEncoders(retrieved_chunks) :
                      /\ reranked_chunks' = rerank_chunks(retrieved_chunks, predict, top_k)
                      /\ pc' = "gate"
                      /\ UNCHANGED <<raised, failed>>
         ELSE /\ reranked_chunks' = <<>>
              /\ pc' = "gate"
              /\ UNCHANGED <<raised, failed, calls>>
    /\ UNCHANGED <<top_k, clsLocals, domain_result, domain_db, retrieved_chunks,
                   similarity_scores, ansLocals, output, ctxVars, fnVars>>

(***************************************************************************)
(* main.py: confidence gate and answer                                     *)
(***************************************************************************)
SeqMax(scores) == CHOOSE x \in {scores[i] : i \in 1..Len(scores)} :
                    \A i \in 1..Len(scores) : scores[i] <= x

\* the comparison with the threshold made non-strict
should_fallback_le(scores, threshold) ==
    IF scores = <<>> THEN TRUE ELSE SeqMax(scores) <= threshold

\* should_fallback, lines 58-61
should_fallback(scores, threshold) ==
    IF scores = <<>> THEN TRUE ELSE SeqMax(scores) < threshold

\* ask_question, line 99
UseVectorDb(reranked, scores, threshold) ==
    reranked # <<>> /\ ~should_fallback(scores, threshold)

\* ask_question, lines 92-101 and 125-129
ConfidenceGate ==
    /\ pc = "gate"
    /\ calls' = IF reranked_chunks # <<>> THEN Called("should_fallback") ELSE calls
    /\ metrics' = <<>>
    /\ answer' = <<>>
    /\ IF UseVectorDb(reranked_chunks, similarity_scores, db_sim_threshold)
         THEN pc' = "generate" /\ source' = "Vector DB"
         ELSE pc' = "web" /\ source' = ""
    /\ UNCHANGED <<top_k, clsLocals, domain_result, domain_db, retrLocals,
                   context, web_context, db_answer, output, raised,
                   failed, ctxVars, fnVars>>

RECURSIVE ContextLoop(_, _, _, _)
\* build_smart_context, lines 34-38: the loop from chunk i on
ContextLoop(chunks, i, ctx, limit) ==
    IF i > Len(chunks) THEN ctx
    ELSE IF Len(ctx) + Len(chunks[i]) > limit THEN ctx
    ELSE ContextLoop(chunks, i + 1, ctx \o chunks[i] \o <<"\n", "\n">>, limit)

\* build_smart_context, lines 30-41
build_smart_context(chunks, limit) == ContextLoop(chunks, 1, <<>>, limit)

\* ask_question, lines 104-105, and generate_answer, lines 88-95
GenerateAnswer ==
    /\ pc = "generate"
    /\ context' = build_smart_context(reranked_chunks, default_max_chars)
    /\ calls' = [calls EXCEPT !["build_smart_context"] = @ + 1,
                              !["generate_answer"] = @ + 1]
    /\ \/ /\ Raise("llm")
          /\ UNCHANGED <<answer, db_answer>>
       \/ \E content \in DbCompletions :
            /\ answer' = StrStrip(content)
            /\ db_answer' = StrStrip(content)
            /\ pc' = "metrics"
            /\ UNCHANGED <<raised, failed>>
    /\ UNCHANGED <<top_k, clsLocals, domain_result, domain_db, retrLocals,
                   source, metrics, web_context, output, ctxVars, fnVars>>

(***************************************************************************)
(* retriever_evaluator.py; a quotient a / b is the pair <<a, b>>           *)
(***************************************************************************)
\* sum(is_relevant(...)[0] for chunk in retrieved_chunks[:k])
RelevantCount(chunks, k, oracle) ==
    Cardinality({i \in 1..Min(k, Len(chunks)) : oracle[chunks[i]]})

\* precision_at_k, lines 30-34
precision_at_k(chunks, k, oracle) ==
    IF chunks = <<>> THEN <<0, 1>> ELSE <<RelevantCount(chunks, k, oracle), k>>

\* the count divided by the number of chunks retrieved
recall_at_k_len(chunks, k, oracle) ==
    IF chunks = <<>> THEN <<0, 1>>
    ELSE <<RelevantCount(chunks, k, oracle), Len(chunks)>>

\* recall_at_k, lines 36-42
recall_at_k(chunks, k, oracle) ==
    IF chunks = <<>> THEN <<0, 1>>
    ELSE <<RelevantCount(chunks, k, oracle), Min(k, Len(chunks))>>

\* mrr_score, lines 44-49
mrr_score(chunks, oracle) ==
    LET hits == {i \in 1..Len(chunks) : oracle[chunks[i]]}
    IN  IF hits = {} THEN <<0, 1>>
        ELSE <<1, CHOOSE i \in hits : \A j \in hits : i <= j>>

\* the test of the answer without lower()
IsSentinel_cased(ans) == StrStrip(ans) = StrStrip(AnsSentinel)

\* ask_question, line 115
IsSentinel(ans) == StrLower(StrStrip(ans)) = SENTINEL_LOWER

\* ask_question, lines 108-115: the metrics, then the test of the answer
ComputeMetrics ==
    /\ pc = "metrics"
    /\ calls' = [calls EXCEPT !["precision_at_k"] = @ + 1,
                              !["recall_at_k"] = @ + 1,
                              !["mrr_score"] = @ + 1]
    /\ \/ /\ Raise("embedder")
          /\ UNCHANGED metrics
       \/ \E oracle \in Oracles(reranked_chunks) :
            /\ metrics' = <<precision_at_k(reranked_chunks, top_k, oracle),
                            recall_at_k(reranked_chunks, top_k, oracle),
                            mrr_score(reranked_chunks, oracle)>>
            /\ pc' = IF IsSentinel(answer) THEN "web" ELSE "format"
            /\ UNCHANGED <<raised, failed>>
    /\ UNCHANGED <<top_k, clsLocals, domain_result, domain_db, retrLocals,
                   source, context, answer, web_context, db_answer, output,
                   ctxVars, fnVars>>

(***************************************************************************)
(* main.py: web search                                                     *)
(***************************************************************************)
RECURSIVE StrJoin(_, _)
\* sep.join(parts)
StrJoin(sep, parts) ==
    IF parts = <<>> THEN <<>>
    ELSE IF Len(parts) = 1 THEN parts[1]
    ELSE parts[1] \o sep \o StrJoin(sep, Tail(parts))

\* tavily_search, lines 49-50
WebText(results) == IF results # <<>> THEN StrJoin(<<"\n">>, results) ELSE <<>>

\* an empty web result answered by searching again
AfterSearch_retry(text) ==
    /\ web_context' = text
    /\ UNCHANGED <<answer, source>>
    /\ pc' = IF text # <<>> THEN "web_answer" ELSE "web"

\* ask_question, lines 118-123 and 131-136, after tavily_search returned text
AfterSearch(text) ==
    /\ web_context' = text
    /\ IF text # <<>>
         THEN /\ pc' = "web_answer"
              /\ UNCHANGED <<answer, source>>
         ELSE /\ answer' = NO_INFO_MSG
              /\ source' = "No Source"
              /\ pc' = "format"

\* the search's exception left uncaught
SearchFailed_uncaught ==
    /\ Raise("web_search")
    /\ UNCHANGED <<web_context, answer, source>>

\* tavily_search, lines 51-53: the search raised, the handler returns ""
SearchFailed ==
    /\ failed' = failed \cup {"web_search"}
    /\ UNCHANGED raised
    /\ AfterSearch(<<>>)

\* ask_question, lines 117-123 and 130-136, and tavily_search, lines 46-53
WebSearch ==
    /\ pc = "web"
    /\ calls' = Called("tavily_search")
    /\ \/ SearchFailed
       \/ \E results \in SnippetLists :
            /\ AfterSearch(WebText(results))
            /\ UNCHANGED <<failed, raised>>
    /\ UNCHANGED <<top_k, clsLocals, domain_result, domain_db, retrLocals,
                   context, metrics, db_answer, output, ctxVars, fnVars>>

\* ask_question, lines 119-120 and 132-133, and answer_from_web, lines 101-137
AnswerFromWeb ==
    /\ pc = "web_answer"
    /\ calls' = Called("answer_from_web")
    /\ IF StrStrip(web_context) = <<>>
         THEN /\ answer' = WEB_NOT_FOUND_MSG
              /\ source' = "Web Search"
              /\ pc' = "format"
              /\ UNCHANGED <<raised, failed>>
         ELSE \/ /\ Raise("llm")
                 /\ UNCHANGED <<answer, source>>
              \/ \E content \in WebCompletions :
                   /\ answer' = StrStrip(content)
                   /\ source' = "Web Search"
                   /\ pc' = "format"
                   /\ UNCHANGED <<raised, failed>>
    /\ UNCHANGED <<top_k, clsLocals, domain_result, domain_db, retrLocals,
                   context, metrics, web_context, db_answer, output,
                   ctxVars, fnVars>>

\* the source tag printed as it is
SourceUsed_raw(src, db) == src

\* ask_question, line 143
SourceUsed(src, db) == IF src = "Vector DB" THEN db ELSE src

\* ask_question, line 150
ShowsMetrics(src, m) == src = "Vector DB" /\ m # <<>>

\* ask_question, lines 141-159
FormatOutput ==
    /\ pc = "format"
    /\ output' = [kind |-> "formatted",
                  source_used |-> SourceUsed(source, domain_db),
                  answer |-> answer,
                  metrics |-> IF ShowsMetrics(source, metrics) THEN metrics ELSE <<>>]
    /\ pc' = "done"
    /\ UNCHANGED <<top_k, clsLocals, domain_result, domain_db, retrLocals,
                   ansLocals, raised, failed, calls, ctxVars, fnVars>>

(***************************************************************************)
(* The run of one query, and the interactive loop                          *)
(***************************************************************************)
NoOutput == [kind |-> NoValue, source_used |-> NoValue, answer |-> <<>>,
             metrics |-> <<>>]

Fresh(k) ==
    /\ pc = "start"
    /\ top_k = k
    /\ edu_score = Unset
    /\ health_score = Unset
    /\ llm_raw = <<>>
    /\ llm_calls = 0
    /\ domain_result = <<>>
    /\ domain_db = NoValue
    /\ retrieved_chunks = <<>>
    /\ similarity_scores = <<>>
    /\ reranked_chunks = <<>>
    /\ source = ""
    /\ context = <<>>
    /\ answer = <<>>
    /\ metrics = <<>>
    /\ web_context = <<>>
    /\ output = NoOutput
    /\ raised = NoValue
    /\ failed = {}
    /\ calls = NoCalls
    /\ db_answer = <<>>

\* main loop, line 174: a new call of ask_question
Reset(k) ==
    /\ pc' = "start"
    /\ top_k' = k
    /\ edu_score' = Unset
    /\ health_score' = Unset
    /\ llm_raw' = <<>>
    /\ llm_calls' = 0
    /\ domain_result' = <<>>
    /\ domain_db' = NoValue
    /\ retrieved_chunks' = <<>>
    /\ similarity_scores' = <<>>
    /\ reranked_chunks' = <<>>
    /\ source' = ""
    /\ context' = <<>>
    /\ answer' = <<>>
    /\ metrics' = <<>>
    /\ web_context' = <<>>
    /\ output' = NoOutput
    /\ raised' = NoValue
    /\ failed' = {}
    /\ calls' = NoCalls
    /\ db_answer' = <<>>

CtxIdle ==
    /\ chunks_arg = <<>>
    /\ max_chars = 0
    /\ ctx_i = 0
    /\ ctx_context = <<>>
    /\ used = 0
    /\ ctx_pc = "idle"

\* no helper is being called on its own
FnIdle ==
    /\ call_pc = "idle"
    /\ args = <<>>
    /\ locals = <<>>
    /\ result = <<>>

Init == (\E k \in 1..MaxTopK : Fresh(k)) /\ CtxIdle /\ FnIdle

\* main loop, lines 167-175: the next question
AskAgain ==
    /\ pc = "done"
    /\ \E k \in 1..MaxTopK : Reset(k)
    /\ UNCHANGED <<ctxVars, fnVars>>

Next ==
    \/ ClassifyEmbed
    \/ LlmConfirm
    \/ LlmFinal
    \/ RouteDomain
    \/ SearchVectorDb
    \/ Rerank
    \/ ConfidenceGate
    \/ GenerateAnswer
    \/ ComputeMetrics
    \/ WebSearch
    \/ AnswerFromWeb
    \/ FormatOutput
    \/ AskAgain

Spec == Init /\ [][Next]_vars

(***************************************************************************)
(* build_smart_context on its own, one loop iteration per step             *)
(***************************************************************************)
\* a chunk of n characters
CtxChunk(n) == [i \in 1..n |-> "c"]
CtxChunks == {CtxChunk(n) : n \in 0..CtxMaxLen}
CtxChunkLists == UNION {[1..n -> CtxChunks] : n \in 0..CtxMaxChunks}

InitCtx ==
    /\ Fresh(1)
    /\ chunks_arg \in CtxChunkLists
    /\ max_chars \in 0..CtxMaxChars
    /\ ctx_i = 1
    /\ ctx_context = <<>>
    /\ used = 0
    /\ ctx_pc = "loop"
    /\ FnIdle

pipelineVars == <<pc, top_k, clsLocals, domain_result, domain_db, retrLocals,
                  ansLocals, output, raised, failed, calls>>

\* build_smart_context, lines 34-38: one iteration of the loop
CtxIterate ==
    /\ ctx_pc = "loop"
    /\ ctx_i <= Len(chunks_arg)
    /\ IF Len(ctx_context) + Len(chunks_arg[ctx_i]) > max_chars
         THEN /\ ctx_pc' = "break"
              /\ UNCHANGED <<ctx_context, used, ctx_i>>
         ELSE /\ ctx_context' = ctx_context \o chunks_arg[ctx_i] \o <<"\n", "\n">>
              /\ used' = used + 1
              /\ ctx_i' = ctx_i + 1
              /\ UNCHANGED ctx_pc
    /\ UNCHANGED <<chunks_arg, max_chars, pipelineVars, fnVars>>

\* build_smart_context, lines 40-41: after the loop
CtxReturn ==
    /\ \/ ctx_pc = "break"
       \/ ctx_pc = "loop" /\ ctx_i > Len(chunks_arg)
    /\ ctx_pc' = "returned"
    /\ UNCHANGED <<chunks_arg, max_chars, ctx_i, ctx_context, used, pipelineVars,
                   fnVars>>

NextCtx ==
    \/ CtxIterate
    \/ CtxReturn

SpecCtx == InitCtx /\ [][NextCtx]_vars

(***************************************************************************)
(* rerank_chunks on its own, applied again to what it returned             *)
(***************************************************************************)
ChunkC == <<"c","c","c">>
RrPool == ChunkPool \cup {ChunkC}
RrChunkLists == UNION {[1..n -> RrPool] : n \in 0..RrMaxChunks}

\* the query is fixed, so the cross-encoder is a function of the chunk
InitRerank ==
    /\ Fresh(1)
    /\ CtxIdle
    /\ call_pc = "call"
    /\ args \in [chunks : RrChunkLists, top_k : 0..RrMaxTopK,
                 predict : [RrPool -> CEScores]]
    /\ locals = [ranked |-> <<>>, previous |-> <<>>, reapplied |-> FALSE]
    /\ result = <<>>

\* rerank_chunks, lines 12-20: pairs, scores, ranked
RerankSort ==
    /\ call_pc = "call"
    /\ locals' = [locals EXCEPT !.ranked =
           SortedDesc([i \in 1..Len(args.chunks) |->
                          <<args.chunks[i], args.predict[args.chunks[i]]>>])]
    /\ call_pc' = "sorted"
    /\ UNCHANGED <<args, result, pipelineVars, ctxVars>>

\* rerank_chunks, line 22: the chunks of ranked[:top_k]
RerankReturn ==
    /\ call_pc = "sorted"
    /\ result' = [i \in 1..Min(args.top_k, Len(locals.ranked)) |-> locals.ranked[i][1]]
    /\ call_pc' = "returned"
    /\ UNCHANGED <<args, locals, pipelineVars, ctxVars>>

\* rerank_chunks called on its own output, with the same top_k
RerankAgain ==
    /\ call_pc = "returned"
    /\ ~locals.reapplied
    /\ args' = [args EXCEPT !.chunks = result]
    /\ locals' = [ranked |-> <<>>, previous |-> result, reapplied |-> TRUE]
    /\ call_pc' = "call"
    /\ UNCHANGED <<result, pipelineVars, ctxVars>>

NextRerank ==
    \/ RerankSort
    \/ RerankReturn
    \/ RerankAgain

SpecRerank == InitRerank /\ [][NextRerank]_vars

(***************************************************************************)
(* precision_at_k and recall_at_k on their own                             *)
(***************************************************************************)
EvChunkLists == UNION {[1..n -> ChunkPool] : n \in 0..EvMaxChunks}

\* the query and the threshold are fixed, so is_relevant(...)[0] is a
\* function of the chunk; k is a rank cutoff, 1 or more
InitEval ==
    /\ Fresh(1)
    /\ CtxIdle
    /\ call_pc = "call"
    /\ args \in [retrieved_chunks : EvChunkLists, k : 1..EvMaxK,
                 is_relevant : [ChunkPool -> BOOLEAN]]
    /\ locals = <<>>
    /\ result = [precision |-> <<>>, recall |-> <<>>]

\* precision_at_k, lines 30-34
CallPrecision ==
    /\ call_pc = "call"
    /\ result.precision = <<>>
    /\ result' = [result EXCEPT !.precision =
           precision_at_k(args.retrieved_chunks, args.k, args.is_relevant)]
    /\ UNCHANGED <<call_pc, args, locals, pipelineVars, ctxVars>>

\* recall_at_k, lines 36-42
CallRecall ==
    /\ call_pc = "call"
    /\ result.recall = <<>>
    /\ result' = [result EXCEPT !.recall =
           recall_at_k(args.retrieved_chunks, args.k, args.is_relevant)]
    /\ UNCHANGED <<call_pc, args, locals, pipelineVars, ctxVars>>

NextEval ==
    \/ CallPrecision
    \/ CallRecall

SpecEval == InitEval /\ [][NextEval]_vars

(***************************************************************************)
(* search_vector_db on its own                                             *)
(***************************************************************************)
\* an empty dict as metadata
MetaEmpty == << {} >>
SvMatches == [metadata : Metadatas \cup {MetaEmpty}, score : RetrieverScores]
\* what index.query can return for top_k = k, in the store's order
SvMatchLists(k) == UNION {[1..n -> SvMatches] : n \in 0..Min(k, MaxMatches)}
\* domain arguments: the configured names and one that is not configured
SvDomains == INDEX_NAMES \cup {"other_pdfs"}

InitSearch ==
    /\ Fresh(1)
    /\ CtxIdle
    /\ call_pc = "call"
    /\ args \in [domain : SvDomains, top_k : 1..MaxTopK, return_scores : BOOLEAN]
    /\ locals = [matches |-> <<>>, chunks |-> <<>>, scores |-> <<>>,
                 embed_calls |-> 0, query_calls |-> 0, raised |-> NoValue]
    /\ result = <<>>

\* search_vector_db, lines 71-76
SvCheckDomain ==
    /\ call_pc = "call"
    /\ IF args.domain \notin INDEX_NAMES
         THEN /\ call_pc' = "raised"
              /\ locals' = [locals EXCEPT !.raised = "ValueError"]
         ELSE /\ call_pc' = "embed"
              /\ UNCHANGED locals
    /\ UNCHANGED <<args, result, pipelineVars, ctxVars>>

\* search_vector_db, line 77
SvEmbed ==
    /\ call_pc = "embed"
    /\ \/ /\ call_pc' = "raised"
          /\ locals' = [locals EXCEPT !.embed_calls = @ + 1, !.raised = "embedder"]
       \/ /\ call_pc' = "query"
          /\ locals' = [locals EXCEPT !.embed_calls = @ + 1]
    /\ UNCHANGED <<args, result, pipelineVars, ctxVars>>

\* search_vector_db, lines 79-83
SvQuery ==
    /\ call_pc = "query"
    /\ \/ /\ call_pc' = "raised"
          /\ locals' = [locals EXCEPT !.query_calls = @ + 1, !.raised = "vector_store"]
       \/ \E matches \in SvMatchLists(args.top_k) :
            /\ call_pc' = "collect"
            /\ locals' = [locals EXCEPT !.query_calls = @ + 1, !.matches = matches]
    /\ UNCHANGED <<args, result, pipelineVars, ctxVars>>

\* search_vector_db, lines 85-91
SvCollect ==
    /\ call_pc = "collect"
    /\ locals' = [locals EXCEPT !.chunks = ChunksOf(locals.matches),
                                !.scores = ScoresOf(locals.matches)]
    /\ call_pc' = "return"
    /\ UNCHANGED <<args, result, pipelineVars, ctxVars>>

\* search_vector_db, lines 93-96
SvReturn ==
    /\ call_pc = "return"
    /\ result' = IF args.return_scores THEN <<locals.chunks, locals.scores>>
                 ELSE locals.chunks
    /\ call_pc' = "returned"
    /\ UNCHANGED <<args, locals, pipelineVars, ctxVars>>

NextSearch ==
    \/ SvCheckDomain
    \/ SvEmbed
    \/ SvQuery
    \/ SvCollect
    \/ SvReturn

SpecSearch == InitSearch /\ [][NextSearch]_vars

(***************************************************************************)
(* Properties                                                              *)
(***************************************************************************)
\* the terminal state of the router that a finished run is in
Terminal ==
    IF pc # "done" THEN NoValue
    ELSE IF output.kind = "plain" THEN "REFUSED"
    ELSE IF source = "Vector DB" THEN "DB_ANSWER"
    ELSE IF source = "Web Search" THEN "WEB_ANSWER"
    ELSE "NO_SOURCE"

\* a and b are equal up to the case of their letters
SameIgnoringCase(a, b) ==
    /\ Len(a) = Len(b)
    /\ \A i \in 1..Len(a) : ToLower(a[i]) = ToLower(b[i])

\* the confidence gate has been evaluated in this run
GateDone ==
    \/ pc \in {"generate", "metrics", "web", "web_answer", "format"}
    \/ pc = "done" /\ output.kind = "formatted"
    \/ pc = "error" /\ (calls["generate_answer"] > 0 \/ calls["tavily_search"] > 0)

\* C1: a query classified Other ends in REFUSED with the fixed refusal
\* message, and the run calls neither search_vector_db, rerank_chunks,
\* generate_answer, answer_from_web nor the web search.
C1_OtherIsRefused ==
    domain_result = Other =>
        /\ calls["search_vector_db"] = 0
        /\ calls["rerank_chunks"] = 0
        /\ calls["generate_answer"] = 0
        /\ calls["answer_from_web"] = 0
        /\ calls["tavily_search"] = 0
        /\ \/ pc = "classified"
           \/ /\ pc = "done"
              /\ Terminal = "REFUSED"
              /\ output.answer = REFUSAL_MSG

C1_Witness ==
    /\ pc = "done"
    /\ domain_result = Other
    /\ output.answer = REFUSAL_MSG

\* C2: once the gate has been evaluated, generate_answer is (being) invoked
\* exactly when the reranked list is non-empty and the raw retriever scores
\* are non-empty with one of them at or above the threshold; otherwise the
\* run is on its way to the web search and generate_answer is never invoked.
C2_GateDecision ==
    GateDone =>
        LET confident == \E i \in 1..Len(similarity_scores) :
                            similarity_scores[i] >= db_sim_threshold
            db == reranked_chunks # <<>> /\ confident
        IN  /\ db => (pc = "generate" \/ calls["generate_answer"] = 1)
            /\ ~db => /\ calls["generate_answer"] = 0
                      /\ pc = "web" \/ calls["tavily_search"] = 1

C2_Witness ==
    /\ pc = "done"
    /\ calls["generate_answer"] = 1
    /\ Len(similarity_scores) = 2
    /\ similarity_scores[1] = db_sim_threshold
    /\ similarity_scores[2] < db_sim_threshold

\* C3: after a DB answer was generated and tested, the web search is
\* (being) called exactly when the answer equals the sentinel up to case;
\* in the escalated run the classifier and the vector retriever ran once.
C3_SentinelEscalates ==
    (calls["generate_answer"] > 0 /\
     (pc \in {"web", "web_answer", "format", "done"} \/ calls["tavily_search"] > 0)) =>
        IF SameIgnoringCase(db_answer, AnsSentinel)
          THEN /\ pc = "web" \/ calls["tavily_search"] = 1
               /\ calls["classify_medical_domain"] = 1
               /\ calls["search_vector_db"] = 1
               /\ calls["generate_answer"] = 1
          ELSE calls["tavily_search"] = 0 /\ pc # "web"

C3_Witness ==
    /\ pc = "done"
    /\ db_answer = AnsSentinelUpper
    /\ calls["tavily_search"] = 1
    /\ source = "Web Search"

\* C4: no run that terminates in WEB_ANSWER, NO_SOURCE or REFUSED has
\* invoked precision_at_k, recall_at_k or mrr_score.
C4_MetricsOnlyOnDbAnswer ==
    Terminal \in {"WEB_ANSWER", "NO_SOURCE", "REFUSED"} =>
        /\ calls["precision_at_k"] = 0
        /\ calls["recall_at_k"] = 0
        /\ calls["mrr_score"] = 0

\* C5 as stated: every upstream failure leaves ask_question as an error, so
\* no run with a failed upstream call ends in WEB_ANSWER or NO_SOURCE.
C5_EveryFailurePropagates ==
    failed # {} => pc = "error" /\ raised \in failed

\* C5 as amended: a failure of the LLM, the vector store, the embedder or
\* the cross-encoder leaves ask_question as that error, after which nothing
\* more is called; a failure of the web search is caught in tavily_search,
\* is not retried, and the run goes on to NO_SOURCE with the fixed message;
\* no run with a failed upstream call ends in WEB_ANSWER.
C5_FailureHandling ==
    /\ \A f \in failed :
         IF f = "web_search"
           THEN /\ pc \in {"format", "done"}
                /\ raised = NoValue
                /\ calls["tavily_search"] = 1
                /\ calls["answer_from_web"] = 0
                /\ web_context = <<>>
                /\ source = "No Source"
                /\ answer = NO_INFO_MSG
           ELSE pc = "error" /\ raised = f
    /\ Terminal = "WEB_ANSWER" => failed = {}
    /\ Cardinality(failed) <= 1

C5_Witness ==
    /\ pc = "done"
    /\ failed = {"web_search"}
    /\ Terminal = "NO_SOURCE"
    /\ calls["generate_answer"] = 1

\* C6: in the result of a run that passed the gate, the source tag is the
\* domain's index name exactly when a DB answer was generated and is not the
\* sentinel; "Web Search" exactly when the web search ran and returned text,
\* and then answer_from_web gave the answer; "No Source" exactly when the web
\* search ran and returned no text, and then the answer is the fixed message
\* and answer_from_web was not called.
C6_SourceTag ==
    (pc = "done" /\ output.kind = "formatted") =>
        LET searched == calls["tavily_search"] = 1
            tag == output.source_used
        IN  /\ tag \in {"education_pdfs", "healthcare_pdfs", "Web Search", "No Source"}
            /\ (tag \in {"education_pdfs", "healthcare_pdfs"}) <=>
                 (calls["generate_answer"] = 1 /\
                  ~SameIgnoringCase(db_answer, AnsSentinel))
            /\ tag \in {"education_pdfs", "healthcare_pdfs"} =>
                 /\ <<domain_result, tag>> \in DOMAIN_MAP
                 /\ output.answer = db_answer
            /\ tag = "Web Search" <=> (searched /\ web_context # <<>>)
            /\ tag = "Web Search" =>
                 /\ calls["answer_from_web"] = 1
                 /\ output.answer \in {StrStrip(c) : c \in WebCompletions}
            /\ tag = "No Source" <=> (searched /\ web_context = <<>>)
            /\ tag = "No Source" =>
                 /\ calls["answer_from_web"] = 0
                 /\ output.answer = NO_INFO_MSG

C6_Witness ==
    /\ pc = "done"
    /\ output.source_used = "No Source"
    /\ calls["generate_answer"] = 1
    /\ failed = {}

\* C8: when classify_medical_domain returns, (1) an Education similarity at
\* or above emb_threshold with an LLM reply that normalises to Education
\* gives Education; (2) an Education similarity below emb_threshold with a
\* Healthcare similarity at or above health_emb_fallback gives Healthcare
\* without any LLM call; (3) both similarities below their thresholds give
\* the normalised reply of the single LLM call; the result is a label.
C8_ClassifierChain ==
    pc = "classified" =>
        /\ domain_result \in ALLOWED_LABELS
        /\ (edu_score >= emb_threshold /\ llm_raw # <<>> /\
            llm_classify(llm_raw[1]) = Education) => domain_result = Education
        /\ (edu_score < emb_threshold /\ health_score >= health_emb_fallback) =>
             /\ domain_result = Healthcare
             /\ llm_calls = 0
             /\ llm_raw = <<>>
        /\ (edu_score < emb_threshold /\ health_score < health_emb_fallback) =>
             /\ llm_calls = 1
             /\ Len(llm_raw) = 1
             /\ domain_result = llm_classify(llm_raw[1])

C8_Witness ==
    /\ pc = "classified"
    /\ edu_score < emb_threshold
    /\ health_score = health_emb_fallback
    /\ domain_result = Healthcare

\* the reply is outside the allowed labels once stripped and title-cased
OutsideLabels(content) == StrTitle(StrStrip(content)) \notin ALLOWED_LABELS

\* the LLM was consulted and none of its replies is an allowed label
OnlyInvalidReplies ==
    /\ llm_raw # <<>>
    /\ \A i \in 1..Len(llm_raw) : OutsideLabels(llm_raw[i])

\* C9 as stated: when the LLM was consulted and every reply is outside the
\* allowed labels, classify_medical_domain returns Other.
C9_InvalidMeansOther ==
    (pc = "classified" /\ OnlyInvalidReplies) => domain_result = Other

\* C9 as amended: when the LLM was consulted and every reply is outside the
\* allowed labels, classify_medical_domain never returns Education; it
\* returns Healthcare exactly when the Healthcare similarity is at or above
\* health_emb_fallback, and Other otherwise.
C9_InvalidNeverEducation ==
    (pc = "classified" /\ OnlyInvalidReplies) =>
        /\ domain_result # Education
        /\ domain_result = Healthcare <=> health_score >= health_emb_fallback
        /\ domain_result = Other <=> health_score < health_emb_fallback

C9_Witness ==
    /\ pc = "classified"
    /\ llm_raw = <<RespEduDot>>
    /\ health_score = health_emb_fallback
    /\ domain_result = Healthcare

\* C10: during one classify_medical_domain call the LLM is invoked at most
\* once.
C10_AtMostOneLlmCall == llm_calls <= 1

\* the steps of ask_question in the order of the router's states: START
\* (classification running), CLASSIFIED, then REFUSED or the retrieval
\* (search, rerank, gate), then the DB answer, the web answer or No Source
PcOrder ==
    {<<"start", "cls_confirm">>, <<"start", "cls_llm">>, <<"start", "classified">>,
     <<"cls_confirm", "cls_llm">>, <<"cls_confirm", "classified">>,
     <<"cls_llm", "classified">>,
     <<"classified", "done">>, <<"classified", "search">>,
     <<"search", "rerank">>, <<"rerank", "gate">>,
     <<"gate", "generate">>, <<"gate", "web">>,
     <<"generate", "metrics">>, <<"metrics", "web">>, <<"metrics", "format">>,
     <<"web", "web_answer">>, <<"web", "format">>, <<"web_answer", "format">>,
     <<"format", "done">>, <<"done", "start">>}

Invoked(c) == calls'[c] > calls[c]

\* one step of a run keeps the order of the router
C11_Step ==
    /\ pc' # "error" => <<pc, pc'>> \in PcOrder
    /\ Invoked("classify_medical_domain") => pc = "start"
    /\ Invoked("search_vector_db") =>
         /\ pc = "search"
         /\ calls["classify_medical_domain"] = 1
         /\ domain_result \in {Education, Healthcare}
         /\ calls["rerank_chunks"] = 0
    /\ Invoked("rerank_chunks") =>
         /\ calls["search_vector_db"] = 1
         /\ calls["should_fallback"] = 0
         /\ calls["generate_answer"] = 0 /\ calls["tavily_search"] = 0
    /\ (pc = "gate" /\ pc' # "gate") =>
         /\ calls["search_vector_db"] = 1
         /\ calls["rerank_chunks"] = IF retrieved_chunks # <<>> THEN 1 ELSE 0
         /\ calls["generate_answer"] = 0 /\ calls["tavily_search"] = 0
    /\ (Invoked("generate_answer") \/ Invoked("tavily_search")) =>
         GateDone /\ calls["search_vector_db"] = 1

\* the number of terminal states the returned value stands for
TerminalCount ==
    Cardinality({t \in {"REFUSED", "DB_ANSWER", "WEB_ANSWER", "NO_SOURCE"} :
        \/ t = "REFUSED" /\ output.kind = "plain" /\ output.answer = REFUSAL_MSG
        \/ t = "DB_ANSWER" /\ output.source_used \in INDEX_NAMES
        \/ t = "WEB_ANSWER" /\ output.source_used = "Web Search"
        \/ t = "NO_SOURCE" /\ output.source_used = "No Source"})

C11_Inv ==
    /\ \A c \in {"classify_medical_domain", "search_vector_db", "rerank_chunks",
                 "generate_answer", "tavily_search"} : calls[c] <= 1
    /\ pc = "done" => TerminalCount = 1
    /\ pc # "done" => output = NoOutput

\* C11: every run goes START, CLASSIFIED, then REFUSED or the retrieval,
\* then one of DB_ANSWER, WEB_ANSWER, NO_SOURCE: the classifier returns
\* before the retriever is called, the retriever before the reranker, the
\* reranker before the gate is evaluated; a finished run is in exactly one
\* terminal state, and the classifier, the retriever, the reranker,
\* generate_answer and the web search are each invoked at most once.
C11_RouterOrder == [](C11_Inv) /\ [][C11_Step]_vars

C11_Witness ==
    /\ pc = "done"
    /\ \A c \in {"classify_medical_domain", "search_vector_db", "rerank_chunks",
                 "generate_answer", "tavily_search"} : calls[c] = 1
    /\ output.source_used = "Web Search"

(***************************************************************************)
(* Properties of build_smart_context (SpecCtx)                             *)
(***************************************************************************)
RECURSIVE SumLen(_, _)
\* the total length of the first n chunks
SumLen(chunks, n) == IF n = 0 THEN 0 ELSE SumLen(chunks, n - 1) + Len(chunks[n])

RECURSIVE Joined(_, _)
\* the first n chunks, each followed by the separator
Joined(chunks, n) ==
    IF n = 0 THEN <<>> ELSE Joined(chunks, n - 1) \o chunks[n] \o <<"\n", "\n">>

\* the returned context is the first `used` chunks, whole and in order
CtxWholeChunks ==
    ctx_pc = "returned" =>
        /\ used \in 0..Len(chunks_arg)
        /\ ctx_context = Joined(chunks_arg, used)

\* the step-wise loop and the operator used by ask_question agree
CtxAgrees ==
    ctx_pc = "returned" => ctx_context = build_smart_context(chunks_arg, max_chars)

\* C7: the returned context is made of whole chunks in ranked order, its
\* length never exceeds max_chars, and a chunk is included exactly when it
\* and all chunks before it fit in max_chars.
C7_BoundedContext ==
    ctx_pc = "returned" =>
        /\ used \in 0..Len(chunks_arg)
        /\ ctx_context = Joined(chunks_arg, used)
        /\ Len(ctx_context) <= max_chars
        /\ \A i \in 1..Len(chunks_arg) :
             i <= used <=> SumLen(chunks_arg, i) <= max_chars

\* the length bound of C7 alone
C7_LengthBound == ctx_pc = "returned" => Len(ctx_context) <= max_chars

(***************************************************************************)
(* Properties of rerank_chunks (SpecRerank)                                *)
(***************************************************************************)
\* the place of input chunk i in the descending order that keeps equal
\* scores in source order
StableRank(chunks, predict, i) ==
    1 + Cardinality({j \in 1..Len(chunks) :
            \/ predict[chunks[j]] > predict[chunks[i]]
            \/ predict[chunks[j]] = predict[chunks[i]] /\ j < i})

\* C12: rerank_chunks returns min(top_k, len(chunks)) chunks, the input
\* chunks in descending order of score with equal scores in source order;
\* called again on its own output with the same top_k it returns that
\* output unchanged.
C12_RerankContract ==
    call_pc = "returned" =>
        /\ Len(result) = Min(args.top_k, Len(args.chunks))
        /\ \A i \in 1..Len(args.chunks) :
             LET r == StableRank(args.chunks, args.predict, i)
             IN  r <= Len(result) => result[r] = args.chunks[i]
        /\ \A i \in 1..(Len(result) - 1) :
             args.predict[result[i]] >= args.predict[result[i + 1]]
        /\ locals.reapplied => result = locals.previous

C12_Witness ==
    /\ call_pc = "returned"
    /\ locals.reapplied
    /\ Len(result) = 2
    /\ result[1] # result[2]
    /\ args.predict[result[1]] = args.predict[result[2]]
    /\ args.top_k = 2

(***************************************************************************)
(* Properties of precision_at_k and recall_at_k (SpecEval)                 *)
(***************************************************************************)
\* the number of the first k chunks that are judged relevant
JudgedRelevant(chunks, k, judge) ==
    LET Rel(c) == judge[c]
    IN  Len(SelectSeq(SubSeq(chunks, 1, Min(k, Len(chunks))), Rel))

\* the quotient q lies in [0, 1]
InUnitInterval(q) == q[2] > 0 /\ 0 <= q[1] /\ q[1] <= q[2]

\* the quotient q equals a / b
EqualsQuotient(q, a, b) == b > 0 /\ q[2] > 0 /\ q[1] * b = a * q[2]

CarriesText(m) == \E c \in ChunkPool : m.metadata = MetaText(c)

CarriedText(m) == CHOOSE c \in ChunkPool : m.metadata = MetaText(c)

\* C14: with return_scores=True search_vector_db returns two sequences of
\* the same length, holding in the store's order the text and the score of
\* exactly the matches that carry a text; a domain that is not configured
\* raises before the embedder or the vector store is called.
C14_SearchContract ==
    /\ (call_pc = "returned" /\ args.return_scores) =>
         LET matches == locals.matches
             kept == {i \in 1..Len(matches) : CarriesText(matches[i])}
             place(i) == Cardinality({l \in kept : l <= i})
         IN  /\ Len(result) = 2
             /\ Len(result[1]) = Cardinality(kept)
             /\ Len(result[2]) = Len(result[1])
             /\ \A i \in kept :
                  /\ result[1][place(i)] = CarriedText(matches[i])
                  /\ result[2][place(i)] = matches[i].score
    /\ args.domain \notin INDEX_NAMES =>
         /\ call_pc \in {"call", "raised"}
         /\ call_pc = "raised" => locals.raised = "ValueError"
         /\ locals.embed_calls = 0
         /\ locals.query_calls = 0

C14_Witness ==
    /\ call_pc = "returned"
    /\ args.return_scores
    /\ Len(locals.matches) = 2
    /\ ~CarriesText(locals.matches[1])
    /\ locals.matches[1].score > locals.matches[2].score
    /\ Len(result[1]) = 1

====
